---- MODULE Spec2Model ----
(***************************************************************************)
(* thinr-cli: the target parser, the registration request, the tunnel      *)
(* lifecycle (lib/proxy.js) and the console session (lib/resource.js).     *)
(*                                                                         *)
(* Strings are sequences of one-character strings, so that every string    *)
(* operation of the source (startsWith, replace, indexOf, lastIndexOf,     *)
(* substring, the \d+ test, parseInt) is computed character by character.  *)
(***************************************************************************)
EXTENDS Integers, Sequences, FiniteSets, TLC

VARIABLES
    pc,            \* position of the running command
    target,        \* [given, str]: the operator's target argument (args[1] or null)
    defaultPort,   \* parseTarget's second argument
    parsed,        \* the value parseTarget returned
    protocol,      \* handleProxyAction's protocol: "tcp", "tls" or "http"
    argv,          \* the command line: [port: [given, str], noOpen]
    options,       \* parsedOptions: [port: [given, str], openBrowser, open]
    request,       \* the body of the registration call, once it is sent
    config,        \* the configuration file: "none", "incomplete" or "complete"
    proxyId,       \* handleProxyAction's proxyId is set (not null)
    handlerInstalled,  \* the tunnel's SIGINT handler is installed
    pendingStops,  \* runs of the SIGINT handler that await deleteProxy
    deleteCalls,   \* DELETE /v1/proxies/{proxyId} calls issued so far
    routeOnServer, \* the server holds the route of this invocation
    browserOpened, \* openBrowser was called
    caught,        \* handleProxyAction's catch block was entered
    postCalls,     \* POST /v1/proxies calls createProxy issued so far
    postOutcome,   \* how the registration ended: "pending" until then
    runningReported,   \* spinner.succeed reported a running tunnel
    deleteFailures,    \* DELETE calls that failed (logged by deleteProxy)
    wsState,       \* the WebSocket's readyState, "NONE" before it is created
    rawMode,       \* process.stdin is in raw mode
    stdinFlowing,  \* process.stdin is resumed (not paused)
    terminalRestored,  \* connectToDeviceConsole's flag
    rawModeOff,    \* times setRawMode(false) was called
    restoreCalls,  \* times restoreTerminal was called
    opened,        \* the 'open' handler ran: resize and data listeners are on
    exitTimer,     \* the 100 ms timer of the 'close' handler is pending
    sent,          \* the frames sent on the WebSocket, in order
    sizeUpdates,   \* geometry requests issued (updateTerminalSize calls)
    sizeAnswered,  \* geometry requests answered so far
    reported,      \* what the session printed: "closed", "error", "fault"
    log,           \* the events delivered to the session, each with the
                   \* WebSocket's state and the frames sent before it
    inflight,      \* the request the transport awaits an answer to
    retry,         \* originalRequest._retry of the caller's request
    depth,         \* refresh requests whose interceptor awaits refreshToken()
    hasRefreshToken,   \* the configuration holds a refresh_token
    refreshCalls,  \* calls of refreshToken()
    refreshPosts,  \* POST /oauth/token requests sent
    sends,         \* times the caller's request was sent
    answers,       \* the answers received, in order: [request, status]
    surfaced,      \* what the caller got: "pending", "response", "failure"
    record,        \* the configuration file's content (the Session Record)
    flows,         \* the requests outstanding together, each with its phase
    idp,           \* the token endpoint: tokens issued, valid refresh token
    lastRefresh,   \* the last refresh that ended: its flow, result and tokens
    fleet,         \* the number of devices the server holds for the filter
    index,         \* getDevices' index
    devices,       \* getDevices' devices
    pages,         \* the page requests getDevices issued so far
    installed,     \* the configuration at startup: "none", "noServer", "server"
    command,       \* the command on the command line, and whether it ran
    baseURL,       \* api.defaults.baseURL: "unset" or the server it names
    login,         \* the answers typed in the setup: [method, server, username]
    calls,         \* the requests of the setup, each with its bearer token
    signals,       \* signals delivered to the process so far
    exitCode       \* -1 while the process runs, then its exit status

parseVars == <<target, defaultPort, parsed>>

requestVars == <<protocol, argv, options, request>>

tunnelVars ==
    <<config, proxyId, handlerInstalled, pendingStops, deleteCalls,
      routeOnServer, browserOpened, caught, postCalls, postOutcome,
      runningReported, deleteFailures>>

consoleVars ==
    <<wsState, rawMode, stdinFlowing, terminalRestored, rawModeOff,
      restoreCalls, opened, exitTimer, sent, sizeUpdates, sizeAnswered,
      reported, log>>

transportVars ==
    <<inflight, retry, depth, hasRefreshToken, refreshCalls, refreshPosts,
      sends, answers, surfaced>>

processVars == <<signals, exitCode>>

sessionVars == <<record, flows, idp, lastRefresh>>

devicesVars == <<fleet, index, devices, pages>>

startupVars == <<installed, command, baseURL, login, calls>>

serviceVars == <<sessionVars, devicesVars, startupVars>>

vars ==
    <<pc, parseVars, requestVars, tunnelVars, consoleVars, transportVars,
      serviceVars, processVars>>

----------------------------------------------------------------------------
(* Bounds of the model.                                                    *)

\* An input string is a scheme followed by at most MaxParts parts.
MaxParts == 3

\* A target of the registration request holds at most MaxRequestParts parts.
MaxRequestParts == 2

\* At most MaxSignals signals are delivered to one process.
MaxSignals == 2

\* At most MaxFrames frames are sent in one console session.
MaxFrames == 2

\* At most MaxResizes terminal-resize notifications reach one session.
MaxResizes == 1

\* Events (input chunks and signals) the log of a console session keeps.
MaxEvents == 3

\* Refresh requests that wait for a nested refreshToken() at one time.
MaxNesting == 2

\* Requests outstanding together
MaxRequests == 2

\* Devices the filter selects: more than two full pages
MaxFleet == 120

\* No input holds more than MaxDigits consecutive digits (values stay far
\* below the 2^31 of the checker's integers and far above 65535).
MaxDigits == 6

----------------------------------------------------------------------------
(* String literals of the source.                                          *)

LOCALHOST == <<"l", "o", "c", "a", "l", "h", "o", "s", "t">>

HTTPS_PREFIX == <<"h", "t", "t", "p", "s", ":", "/", "/">>

HTTP_PREFIX == <<"h", "t", "t", "p", ":", "/", "/">>

EMPTY == << >>

----------------------------------------------------------------------------
(* JavaScript string primitives.                                           *)

DecDigits == {"0", "1", "2", "3", "4", "5", "6", "7", "8", "9"}

\* String.prototype.startsWith
startsWith(s, p) ==
    /\ Len(s) >= Len(p)
    /\ SubSeq(s, 1, Len(p)) = p

\* The set of 0-based positions at which p occurs in s.
Occurrences(s, p) ==
    {i \in 0..(Len(s) - Len(p)) : SubSeq(s, i + 1, i + Len(p)) = p}

Min(S) == CHOOSE x \in S : \A y \in S : x <= y

Max(S) == CHOOSE x \in S : \A y \in S : x >= y

\* String.prototype.indexOf: 0-based, -1 when absent
indexOf(s, p) ==
    IF Occurrences(s, p) = {} THEN -1 ELSE Min(Occurrences(s, p))

\* String.prototype.lastIndexOf: 0-based, -1 when absent
lastIndexOf(s, p) ==
    IF Occurrences(s, p) = {} THEN -1 ELSE Max(Occurrences(s, p))

\* String.prototype.includes
includes(s, p) == Occurrences(s, p) # {}

\* String.prototype.substring(from, to) with 0 <= from <= to <= length
substring(s, from, to) == SubSeq(s, from + 1, to)

\* String.prototype.replace(p, '') with a string pattern: the first
\* occurrence of p is removed, and s is unchanged when there is none.
replaceFirst(s, p) ==
    LET i == indexOf(s, p)
    IN  IF i = -1 THEN s
        ELSE substring(s, 0, i) \o substring(s, i + Len(p), Len(s))

\* /^\d+$/.test(s)
allDigits(s) ==
    /\ Len(s) > 0
    /\ \A i \in 1..Len(s) : s[i] \in DecDigits

----------------------------------------------------------------------------
(* parseInt(string) with no radix argument.                                *)

WhiteSpace == {" ", "\t", "\n", "\r"}

HexValue(c) ==
    CASE c = "0" -> 0 [] c = "1" -> 1 [] c = "2" -> 2 [] c = "3" -> 3
      [] c = "4" -> 4 [] c = "5" -> 5 [] c = "6" -> 6 [] c = "7" -> 7
      [] c = "8" -> 8 [] c = "9" -> 9
      [] c \in {"a", "A"} -> 10 [] c \in {"b", "B"} -> 11
      [] c \in {"c", "C"} -> 12 [] c \in {"d", "D"} -> 13
      [] c \in {"e", "E"} -> 14 [] c \in {"f", "F"} -> 15
      [] OTHER -> 99

\* The longest prefix of s made of digits of the radix, as a number;
\* NaN when that prefix is empty.
RECURSIVE parseDigits(_, _, _, _)
parseDigits(s, radix, acc, any) ==
    IF s # EMPTY /\ HexValue(Head(s)) < radix
    THEN parseDigits(Tail(s), radix, acc * radix + HexValue(Head(s)), TRUE)
    ELSE [isNaN |-> ~any, value |-> acc]

RECURSIVE trimStart(_)
trimStart(s) ==
    IF s # EMPTY /\ Head(s) \in WhiteSpace THEN trimStart(Tail(s)) ELSE s

\* parseInt as engines before ES5 read it: a leading 0 selects radix 8.
parseInt_legacyOctal(str) ==
    LET t == trimStart(str)
        octal == Len(t) >= 2 /\ t[1] = "0" /\ t[2] \in DecDigits
        r == parseDigits(t, IF octal THEN 8 ELSE 10, 0, FALSE)
    IN  [isNaN |-> r.isNaN, value |-> r.value]

\* parseInt: leading white space is skipped, a sign is read, a 0x or 0X
\* prefix selects radix 16, and the digits that follow are read up to the
\* first character that is not a digit of the radix.
parseInt(str) ==
    LET t == trimStart(str)
        signed == t # EMPTY /\ Head(t) \in {"+", "-"}
        sign == IF t # EMPTY /\ Head(t) = "-" THEN -1 ELSE 1
        u == IF signed THEN Tail(t) ELSE t
        hex == Len(u) >= 2 /\ u[1] = "0" /\ u[2] \in {"x", "X"}
        r == IF hex THEN parseDigits(Tail(Tail(u)), 16, 0, FALSE)
             ELSE parseDigits(u, 10, 0, FALSE)
    IN  [isNaN |-> r.isNaN, value |-> sign * r.value]

----------------------------------------------------------------------------
(* parseTarget (lib/proxy.js 13-80; commands/proxy.js holds the same text). *)

\* if (!target): null, undefined and the empty string are falsy
absentTarget(t) == ~t.given \/ t.str = EMPTY

\* Lines 18-21: the target is only a number
portOnly(str) ==
    [address |-> LOCALHOST, port |-> parseInt(str).value, isSecure |-> FALSE]

\* stripScheme with the http:// branch left out.
stripScheme_httpsOnly(str) ==
    IF startsWith(str, HTTPS_PREFIX)
    THEN [isSecure |-> TRUE, cleanTarget |-> replaceFirst(str, HTTPS_PREFIX)]
    ELSE [isSecure |-> FALSE, cleanTarget |-> str]

\* Lines 23-33: the scheme is detected and removed
stripScheme(str) ==
    IF startsWith(str, HTTPS_PREFIX)
    THEN [isSecure |-> TRUE, cleanTarget |-> replaceFirst(str, HTTPS_PREFIX)]
    ELSE IF startsWith(str, HTTP_PREFIX)
    THEN [isSecure |-> FALSE, cleanTarget |-> replaceFirst(str, HTTP_PREFIX)]
    ELSE [isSecure |-> FALSE, cleanTarget |-> str]

\* Lines 35-39: everything from the first slash on is removed
stripPath(cleanTarget) ==
    LET slashIndex == indexOf(cleanTarget, <<"/">>)
    IN  IF slashIndex # -1 THEN substring(cleanTarget, 0, slashIndex)
        ELSE cleanTarget

\* Line 53: the test of the parsed port suffix
validPort(parsedPort) ==
    ~parsedPort.isNaN /\ parsedPort.value > 0 /\ parsedPort.value <= 65535

\* Lines 41-64: hostname_or_ip:port, or just hostname_or_ip
splitHostPort(cleanTarget, dflt) ==
    IF includes(cleanTarget, <<":">>)
    THEN LET lastColonIndex == lastIndexOf(cleanTarget, <<":">>)
             portStr == substring(cleanTarget, lastColonIndex + 1, Len(cleanTarget))
             parsedPort == parseInt(portStr)
         IN  IF validPort(parsedPort)
             THEN [address |-> substring(cleanTarget, 0, lastColonIndex),
                   port |-> parsedPort.value]
             ELSE [address |-> cleanTarget, port |-> dflt]
    ELSE [address |-> cleanTarget, port |-> dflt]

\* Lines 66-73: a scheme and a port equal to the default give the scheme's port
schemePort(str, isSecure, port, dflt) ==
    IF (startsWith(str, HTTPS_PREFIX) \/ startsWith(str, HTTP_PREFIX)) /\ port = dflt
    THEN IF isSecure /\ dflt # 443 THEN 443
         ELSE IF ~isSecure /\ dflt # 80 THEN 80
         ELSE port
    ELSE port

\* Lines 75-79: address || 'localhost'
orLocalhost(address) == IF address = EMPTY THEN LOCALHOST ELSE address

parseTarget(t, dflt) ==
    IF absentTarget(t)
    THEN [address |-> LOCALHOST, port |-> dflt, isSecure |-> FALSE]
    ELSE IF allDigits(t.str)
    THEN portOnly(t.str)
    ELSE LET scheme == stripScheme(t.str)
             cleanTarget == stripPath(scheme.cleanTarget)
             hp == splitHostPort(cleanTarget, dflt)
         IN  [address |-> orLocalhost(hp.address),
              port |-> schemePort(t.str, scheme.isSecure, hp.port, dflt),
              isSecure |-> scheme.isSecure]

----------------------------------------------------------------------------
(* The inputs of the parser.                                               *)

Parts ==
    { <<"x">>, <<":">>, <<"/">>, <<"0">>, <<"8", "0">>, <<"4", "4", "3">>,
      <<"6", "5", "5", "3", "5">>, <<"6", "5", "5", "3", "6">> }

Schemes == {EMPTY, HTTP_PREFIX, HTTPS_PREFIX}

RECURSIVE Concat(_)
Concat(ps) == IF ps = << >> THEN EMPTY ELSE Head(ps) \o Concat(Tail(ps))

\* The length of the run of digits that ends at position i of s.
RECURSIVE DigitRun(_, _)
DigitRun(s, i) ==
    IF i = 0 \/ s[i] \notin DecDigits THEN 0 ELSE 1 + DigitRun(s, i - 1)

BodiesUpTo(k) ==
    {Concat(ps) : ps \in UNION {[1..n -> Parts] : n \in 0..k}}

TargetStrings(k) ==
    {str \in {sch \o b : sch \in Schemes, b \in BodiesUpTo(k)} :
        \A i \in 1..Len(str) : DigitRun(str, i) <= MaxDigits}

\* args[1], or null when there is none
TargetsUpTo(k) ==
    {[given |-> FALSE, str |-> EMPTY]}
        \cup {[given |-> TRUE, str |-> str] : str \in TargetStrings(k)}

Targets == TargetsUpTo(MaxParts)

DefaultPorts == {22, 80, 443, 65535}

NoResult == [address |-> EMPTY, port |-> 0, isSecure |-> FALSE]

----------------------------------------------------------------------------
(* The registration request (lib/proxy.js 92-123 and 194-243).             *)

\* A JavaScript value that is null or a number (NaN included).
Null == [tag |-> "null", isNaN |-> FALSE, value |-> 0]

Number(n) == [tag |-> "number", isNaN |-> n.isNaN, value |-> n.value]

\* ToBoolean of null or a number: null, NaN and 0 are falsy.
truthyNumber(v) == v.tag = "number" /\ ~v.isNaN /\ v.value # 0

\* ToBoolean of options.port: null, undefined and '' are falsy.
truthyString(o) == o.given /\ o.str # EMPTY

\* Line 93
defaultPortOf(proto) ==
    IF proto = "http" THEN 80 ELSE IF proto = "tls" THEN 443 ELSE 22

\* handleProxyAction with the http case reading the secure flag only.
proxyConfigOf_flagOnly(proto, p, opts) ==
    [targetAddress |-> p.address,
     targetPort |-> p.port,
     serverPort |-> IF truthyString(opts.port) THEN Number(parseInt(opts.port.str))
                    ELSE Null,
     targetSecure |-> (proto = "tls") \/ (proto = "http" /\ p.isSecure),
     serverSecure |-> proto \in {"tls", "http"},
     web |-> proto = "http"]

\* Lines 96-123: proxyConfig from the protocol, the parsed target p and the
\* options
proxyConfigOf(proto, p, opts) ==
    LET base == [targetAddress |-> p.address,
                 targetPort |-> p.port,
                 serverPort |-> IF truthyString(opts.port)
                                THEN Number(parseInt(opts.port.str))
                                ELSE Null,
                 targetSecure |-> FALSE,
                 serverSecure |-> FALSE,
                 web |-> FALSE]
    IN  CASE proto = "tcp" -> [base EXCEPT !.serverSecure = FALSE]
          [] proto = "tls" -> [base EXCEPT !.targetSecure = TRUE,
                                           !.serverSecure = TRUE]
          [] proto = "http" -> [base EXCEPT !.web = TRUE,
                                            !.serverSecure = TRUE,
                                            !.targetSecure = p.isSecure \/ p.port = 443]
          [] OTHER -> base

MIN_PORT == 50000

MAX_PORT == 51000

\* Math.random() returns a number r with 0 <= r < 1: a fraction num/den.
RandomSamples ==
    { [num |-> 0, den |-> 1], [num |-> 1, den |-> 2],
      [num |-> 1000, den |-> 1001], [num |-> 2001, den |-> 2002] }

\* getRandomPort with Math.round in the place of Math.floor.
getRandomPort_round(r) ==
    ((2 * r.num * (MAX_PORT - MIN_PORT + 1) + r.den) \div (2 * r.den)) + MIN_PORT

\* Lines 184-186: Math.floor(Math.random() * (max - min + 1)) + min
getRandomPort(r) ==
    ((r.num * (MAX_PORT - MIN_PORT + 1)) \div r.den) + MIN_PORT

\* Lines 202-243: the body createProxy posts, for the random number r
requestBody(cfg, r) ==
    LET web == cfg.web
        targetAddress == orLocalhost(cfg.targetAddress)
        targetPort == IF cfg.targetPort # 0 THEN cfg.targetPort
                      ELSE IF web THEN 80 ELSE 22
        serverPort == IF truthyNumber(cfg.serverPort) THEN cfg.serverPort.value
                      ELSE getRandomPort(r)
        serverSecure == cfg.serverSecure \/ web
        targetSecure == cfg.targetSecure \/ FALSE
    IN  [sent |-> TRUE,
         protocol |-> IF web THEN "http_iotmp" ELSE "tcp_iotmp",
         target |-> [address |-> targetAddress, port |-> targetPort,
                     secure |-> targetSecure],
         source |-> [port |-> serverPort, secure |-> serverSecure]]

NoRequest ==
    [sent |-> FALSE,
     protocol |-> "",
     target |-> [address |-> EMPTY, port |-> 0, secure |-> FALSE],
     source |-> [port |-> 0, secure |-> FALSE]]

Protocols == {"tcp", "tls", "http"}

\* The values of -p/--port: none, and the texts "0", "80", "65536", "x", "80x".
PortOptions ==
    { [given |-> FALSE, str |-> EMPTY],
      [given |-> TRUE, str |-> <<"0">>],
      [given |-> TRUE, str |-> <<"8", "0">>],
      [given |-> TRUE, str |-> <<"6", "5", "5", "3", "6">>],
      [given |-> TRUE, str |-> <<"x">>],
      [given |-> TRUE, str |-> <<"8", "0", "x">>] }

\* The command lines of `device <id> <action> [target]`: -p/--port with its
\* value, and --no-open.
Argvs == [port : PortOptions, noOpen : BOOLEAN]

NoArgv == [port |-> [given |-> FALSE, str |-> EMPTY], noOpen |-> FALSE]

\* commands/device.js lines 43-69: parsedOptions starts with openBrowser
\* true; -p stores its value in port; --no-open stores false in open.
parseOptions(av) ==
    [port |-> av.port,
     openBrowser |-> TRUE,
     open |-> IF av.noOpen THEN "false" ELSE "undefined"]

Options == {parseOptions(av) : av \in Argvs}

NoOptions == parseOptions(NoArgv)

\* The targets of the request specification: at most MaxRequestParts parts.
RequestTargets == TargetsUpTo(MaxRequestParts)

----------------------------------------------------------------------------
(* The specifications of the two pure parts.                               *)

ParseIdle ==
    /\ target = [given |-> FALSE, str |-> EMPTY]
    /\ defaultPort = 0
    /\ parsed = NoResult

RequestIdle ==
    /\ protocol = "tcp"
    /\ argv = NoArgv
    /\ options = NoOptions
    /\ request = NoRequest

TunnelIdle ==
    /\ config = "complete"
    /\ proxyId = FALSE
    /\ handlerInstalled = FALSE
    /\ pendingStops = 0
    /\ deleteCalls = 0
    /\ routeOnServer = FALSE
    /\ browserOpened = FALSE
    /\ caught = FALSE
    /\ postCalls = 0
    /\ postOutcome = "pending"
    /\ runningReported = FALSE
    /\ deleteFailures = 0

ConsoleIdle ==
    /\ wsState = "NONE"
    /\ rawMode = FALSE
    /\ stdinFlowing = FALSE
    /\ terminalRestored = FALSE
    /\ rawModeOff = 0
    /\ restoreCalls = 0
    /\ opened = FALSE
    /\ exitTimer = FALSE
    /\ sent = << >>
    /\ sizeUpdates = 0
    /\ sizeAnswered = 0
    /\ reported = {}
    /\ log = << >>

TransportIdle ==
    /\ inflight = "none"
    /\ retry = FALSE
    /\ depth = 0
    /\ hasRefreshToken = TRUE
    /\ refreshCalls = 0
    /\ refreshPosts = 0
    /\ sends = 0
    /\ answers = << >>
    /\ surfaced = "pending"

\* No configuration file.
NoRecord == [field \in {} |-> ""]

\* A value that is JavaScript's undefined: a field the object does not hold.
UNDEFINED == "undefined"

NoRefresh ==
    [n |-> 0, flow |-> 0, ok |-> FALSE, access |-> UNDEFINED, refresh |-> UNDEFINED]

SessionIdle ==
    /\ record = NoRecord
    /\ flows = << >>
    /\ idp = [issued |-> 0, consumed |-> {}]
    /\ lastRefresh = NoRefresh

DevicesIdle ==
    /\ fleet = 0
    /\ index = 0
    /\ devices = << >>
    /\ pages = << >>

StartupIdle ==
    /\ installed = "server"
    /\ command = [name |-> "none", dispatched |-> FALSE]
    /\ baseURL = "unset"
    /\ login = [method |-> "", server |-> "", username |-> ""]
    /\ calls = << >>

ServiceIdle ==
    /\ SessionIdle
    /\ DevicesIdle
    /\ StartupIdle

ProcessIdle ==
    /\ signals = 0
    /\ exitCode = -1

ParseInit ==
    /\ pc = "parse"
    /\ target \in Targets
    /\ defaultPort \in DefaultPorts
    /\ parsed = NoResult
    /\ RequestIdle
    /\ TunnelIdle
    /\ ConsoleIdle
    /\ TransportIdle
    /\ ServiceIdle
    /\ ProcessIdle

\* parseTarget(target, defaultPort)
Parse ==
    /\ pc = "parse"
    /\ parsed' = parseTarget(target, defaultPort)
    /\ pc' = "parsed"
    /\ UNCHANGED <<target, defaultPort, requestVars, tunnelVars, consoleVars,
                   transportVars, serviceVars, processVars>>

ParseNext == Parse

SpecParse == ParseInit /\ [][ParseNext]_vars

RequestInit ==
    /\ pc = "request"
    /\ target \in RequestTargets
    /\ defaultPort = 0
    /\ parsed = NoResult
    /\ protocol \in Protocols
    /\ argv \in {av \in Argvs : ~av.noOpen}
    /\ options = parseOptions(argv)
    /\ request = NoRequest
    /\ TunnelIdle
    /\ ConsoleIdle
    /\ TransportIdle
    /\ ServiceIdle
    /\ ProcessIdle

\* handleProxyAction up to the registration call that createProxy posts
BuildRequest ==
    /\ pc = "request"
    /\ \E r \in RandomSamples :
           LET p == parseTarget(target, defaultPortOf(protocol))
           IN  /\ defaultPort' = defaultPortOf(protocol)
               /\ parsed' = p
               /\ request' = requestBody(proxyConfigOf(protocol, p, options), r)
    /\ pc' = "requested"
    /\ UNCHANGED <<target, protocol, argv, options, tunnelVars, consoleVars,
                   transportVars, serviceVars, processVars>>

RequestNext == BuildRequest

SpecRequest == RequestInit /\ [][RequestNext]_vars

----------------------------------------------------------------------------
(* The tunnel lifecycle: handleProxyAction (lib/proxy.js 85-176),          *)
(* createProxy (194-273), deleteProxy (279-297), openBrowser (303-311).    *)
(* Code between two awaits runs as one step: signals are delivered by the  *)
(* event loop, never in the middle of synchronous code.                    *)

\* The targets and options of the tunnel specification.
TunnelTargets ==
    { [given |-> FALSE, str |-> EMPTY],
      [given |-> TRUE, str |-> <<"8", "0">>],
      [given |-> TRUE, str |-> HTTPS_PREFIX \o <<"x">>] }

TunnelArgvs ==
    {av \in Argvs : av.port.str \in {EMPTY, <<"8", "0">>}}

Configs == {"none", "incomplete", "complete"}

\* The answers to POST /v1/proxies, as createProxy's catch tells them apart
\* (lines 260-272).
PostOutcomes == {"ok", "unauthorized", "serverError", "noResponse"}

\* Where a step after the registration throws, if one does: before or
\* after process.on('SIGINT') (line 154).
Throws == {"none", "beforeHandler", "afterHandler"}

\* deleteProxy lines 281-285: without token or server no call is made
deleteProxyCalls(cfg) == IF cfg = "complete" THEN 1 ELSE 0

\* The answers to DELETE /v1/proxies/{proxyId}, as deleteProxy's catch sees
\* them: success, an error status, no response.
DeleteOutcomes == {"ok", "status", "noResponse"}

\* deleteProxy that throws what api.delete threw.
deleteProxy_rethrow(answer) ==
    [logged |-> answer # "ok", thrown |-> answer # "ok"]

\* deleteProxy lines 287-296: true on success; a failure is logged and
\* false is returned
deleteProxy(answer) ==
    [logged |-> answer # "ok", thrown |-> FALSE]

\* What the DELETE leaves on the server: a request that got no response may
\* have been served.
routeAfter(answer) ==
    CASE answer = "ok" -> {FALSE}
      [] answer = "noResponse" -> {routeOnServer, FALSE}
      [] OTHER -> {routeOnServer}

\* process.exit(code)
Exit(code) ==
    /\ pc' = "exited"
    /\ exitCode' = code

\* The catch block ending with process.exit(0).
Catch_exitSuccess(id) ==
    /\ caught' = TRUE
    /\ deleteCalls' = deleteCalls
    /\ pc' = "exited"
    /\ exitCode' = 0

\* Lines 165-175, the catch block: deleteProxy when proxyId is set, then
\* process.exit(1). With a call to await, the exit follows its answer.
Catch(id) ==
    /\ caught' = TRUE
    /\ IF id /\ deleteProxyCalls(config) = 1
       THEN /\ deleteCalls' = deleteCalls + 1
            /\ pc' = "cleanup"
            /\ exitCode' = exitCode
       ELSE /\ deleteCalls' = deleteCalls
            /\ Exit(1)

\* Lines 151-163: console.log, process.on('SIGINT'), process.stdin.resume()
InstallAndWait(thrown) ==
    CASE thrown = "none" ->
             /\ handlerInstalled' = TRUE
             /\ pc' = "waiting"
             /\ UNCHANGED <<deleteCalls, exitCode, caught>>
      [] thrown = "beforeHandler" ->
             /\ handlerInstalled' = handlerInstalled
             /\ Catch(TRUE)
      [] thrown = "afterHandler" ->
             /\ handlerInstalled' = TRUE
             /\ Catch(TRUE)

TunnelInit ==
    /\ pc = "start"
    /\ target \in TunnelTargets
    /\ defaultPort = 0
    /\ parsed = NoResult
    /\ protocol \in Protocols
    /\ argv \in TunnelArgvs
    /\ options = parseOptions(argv)
    /\ request = NoRequest
    /\ config \in Configs
    /\ proxyId = FALSE
    /\ handlerInstalled = FALSE
    /\ pendingStops = 0
    /\ deleteCalls = 0
    /\ routeOnServer = FALSE
    /\ browserOpened = FALSE
    /\ caught = FALSE
    /\ postCalls = 0
    /\ postOutcome = "pending"
    /\ runningReported = FALSE
    /\ deleteFailures = 0
    /\ ConsoleIdle
    /\ TransportIdle
    /\ ServiceIdle
    /\ ProcessIdle

\* Lines 85-131 and 194-243: from the entry of handleProxyAction to the
\* registration call that createProxy posts.
TunnelStart ==
    /\ pc = "start"
    /\ IF config = "none"
       THEN /\ Exit(1)
            /\ UNCHANGED <<defaultPort, parsed, request, caught, deleteCalls,
                           postCalls, postOutcome>>
       ELSE LET p == parseTarget(target, defaultPortOf(protocol))
            IN  /\ defaultPort' = defaultPortOf(protocol)
                /\ parsed' = p
                /\ IF config = "incomplete"
                   THEN /\ Catch(FALSE)
                        /\ request' = request
                        /\ postCalls' = postCalls
                        /\ postOutcome' = "missingFields"
                   ELSE /\ \E r \in RandomSamples :
                               request' = requestBody(proxyConfigOf(protocol, p, options), r)
                        /\ postCalls' = postCalls + 1
                        /\ pc' = "posting"
                        /\ UNCHANGED <<exitCode, caught, deleteCalls, postOutcome>>
    /\ UNCHANGED <<target, protocol, argv, options, config, proxyId,
                   handlerInstalled, pendingStops, routeOnServer, browserOpened,
                   runningReported, deleteFailures, signals, consoleVars,
                   transportVars, serviceVars>>

\* Lines 131-149: the registration call is answered. A failure goes to the
\* catch block with proxyId null; a success stores proxyId and reports the
\* tunnel, then opens the browser (http, unless disabled) or goes on to
\* install the handler.
PostAnswered ==
    /\ pc = "posting"
    /\ \E outcome \in PostOutcomes :
           /\ postOutcome' = outcome
           /\ IF outcome = "ok"
              THEN /\ proxyId' = TRUE
                   /\ routeOnServer' = TRUE
                   /\ runningReported' = TRUE
                   /\ \E thrown \in Throws :
                          IF protocol = "http" /\ thrown # "beforeHandler"
                             /\ options.openBrowser # FALSE
                          THEN /\ thrown = "none"
                               /\ browserOpened' = TRUE
                               /\ pc' = "opening"
                               /\ UNCHANGED <<handlerInstalled, deleteCalls, exitCode,
                                              caught>>
                          ELSE /\ browserOpened' = browserOpened
                               /\ InstallAndWait(thrown)
              ELSE /\ proxyId' = proxyId
                   /\ routeOnServer' \in (IF outcome = "noResponse" THEN BOOLEAN ELSE {FALSE})
                   /\ Catch(FALSE)
                   /\ UNCHANGED <<handlerInstalled, browserOpened, runningReported>>
    /\ UNCHANGED <<parseVars, requestVars, config, pendingStops, postCalls,
                   deleteFailures, signals, consoleVars, transportVars, serviceVars>>

\* Lines 143-163: openBrowser returned (it catches its own failures)
BrowserReturned ==
    /\ pc = "opening"
    /\ \E thrown \in Throws : InstallAndWait(thrown)
    /\ UNCHANGED <<parseVars, requestVars, config, proxyId, pendingStops,
                   routeOnServer, browserOpened, postCalls, postOutcome,
                   runningReported, deleteFailures, signals, consoleVars,
                   transportVars, serviceVars>>

\* SIGINT with no handler installed: the process is terminated by the signal.
\* A registration call in flight may or may not have been served.
TunnelSigintDefault ==
    /\ pc \in {"start", "posting", "opening", "waiting", "cleanup"}
    /\ ~handlerInstalled
    /\ signals < MaxSignals
    /\ signals' = signals + 1
    /\ routeOnServer' \in (IF pc = "posting" THEN BOOLEAN ELSE {routeOnServer})
    /\ Exit(130)
    /\ UNCHANGED <<parseVars, requestVars, config, proxyId, handlerInstalled,
                   pendingStops, deleteCalls, browserOpened, caught, postCalls,
                   postOutcome, runningReported, deleteFailures, consoleVars,
                   transportVars, serviceVars>>

\* Lines 154-158: the SIGINT handler runs and calls deleteProxy(proxyId)
TunnelSigint ==
    /\ pc \in {"waiting", "cleanup"}
    /\ handlerInstalled
    /\ signals < MaxSignals
    /\ signals' = signals + 1
    /\ IF proxyId /\ deleteProxyCalls(config) = 1
       THEN /\ deleteCalls' = deleteCalls + 1
            /\ pendingStops' = pendingStops + 1
            /\ UNCHANGED <<pc, exitCode>>
       ELSE /\ Exit(0)
            /\ UNCHANGED <<deleteCalls, pendingStops>>
    /\ UNCHANGED <<parseVars, requestVars, config, proxyId, handlerInstalled,
                   routeOnServer, browserOpened, caught, postCalls, postOutcome,
                   runningReported, deleteFailures, consoleVars, transportVars, serviceVars>>

\* Lines 157-159 and 287-296: the handler's DELETE is answered; a failure is
\* logged by deleteProxy; then process.exit(0). An exception leaving the
\* async handler would be an unhandled rejection, which ends the process
\* with status 1.
StopAnswered ==
    /\ pc \in {"waiting", "cleanup"}
    /\ pendingStops > 0
    /\ \E answer \in DeleteOutcomes :
           LET r == deleteProxy(answer)
           IN  /\ routeOnServer' \in routeAfter(answer)
               /\ deleteFailures' = deleteFailures + (IF r.logged THEN 1 ELSE 0)
               /\ Exit(IF r.thrown THEN 1 ELSE 0)
    /\ pendingStops' = pendingStops - 1
    /\ UNCHANGED <<parseVars, requestVars, config, proxyId, handlerInstalled,
                   deleteCalls, browserOpened, caught, postCalls, postOutcome,
                   runningReported, signals, consoleVars, transportVars, serviceVars>>

\* Lines 171-174 and 287-296: the catch block's DELETE is answered; then
\* process.exit(1)
CleanupAnswered ==
    /\ pc = "cleanup"
    /\ \E answer \in DeleteOutcomes :
           LET r == deleteProxy(answer)
           IN  /\ routeOnServer' \in routeAfter(answer)
               /\ deleteFailures' = deleteFailures + (IF r.logged THEN 1 ELSE 0)
    /\ Exit(1)
    /\ UNCHANGED <<parseVars, requestVars, config, proxyId, handlerInstalled,
                   pendingStops, deleteCalls, browserOpened, caught, postCalls,
                   postOutcome, runningReported, signals, consoleVars,
                   transportVars, serviceVars>>

TunnelNext ==
    \/ TunnelStart
    \/ PostAnswered
    \/ BrowserReturned
    \/ TunnelSigintDefault
    \/ TunnelSigint
    \/ StopAnswered
    \/ CleanupAnswered

SpecTunnel == TunnelInit /\ [][TunnelNext]_vars

----------------------------------------------------------------------------
(* The console session: connectToDeviceConsole (lib/resource.js 135-258)   *)
(* and updateTerminalSize (268-284). Every handler runs as one step.       *)

\* The control characters of the session: Ctrl+D and Ctrl+C.
EOT == "\\u0004"

ETX == "\\u0003"

\* The chunks process.stdin delivers.
Chunks == { <<EOT>>, <<"a">>, <<"a", EOT>> }

\* restoreTerminal without its terminalRestored guard.
restoreTerminal_unguarded ==
    /\ rawMode' = FALSE
    /\ stdinFlowing' = FALSE
    /\ terminalRestored' = TRUE
    /\ rawModeOff' = rawModeOff + 1
    /\ restoreCalls' = restoreCalls + 1

\* Lines 168-175: restoreTerminal
restoreTerminal ==
    /\ restoreCalls' = restoreCalls + 1
    /\ IF ~terminalRestored
       THEN /\ rawMode' = FALSE
            /\ stdinFlowing' = FALSE
            /\ terminalRestored' = TRUE
            /\ rawModeOff' = rawModeOff + 1
       ELSE UNCHANGED <<rawMode, stdinFlowing, terminalRestored, rawModeOff>>

\* if (ws.readyState === WebSocket.OPEN) ws.close(): the closing handshake
\* starts (lines 244-246 and 253-255)
closeIfOpen == wsState' = IF wsState = "OPEN" THEN "CLOSING" ELSE wsState

\* Line 192: data.toString() === '\u0004'
isEndOfTransmission(data) == data = <<EOT>>

\* An event delivered to the session, as the log keeps it.
Event(kind, data) ==
    [kind |-> kind, data |-> data, ws |-> wsState, sentBefore |-> Len(sent)]

ConsoleInit ==
    /\ pc = "start"
    /\ ParseIdle
    /\ RequestIdle
    /\ config \in Configs
    /\ proxyId = FALSE
    /\ handlerInstalled = FALSE
    /\ pendingStops = 0
    /\ deleteCalls = 0
    /\ routeOnServer = FALSE
    /\ browserOpened = FALSE
    /\ caught = FALSE
    /\ postCalls = 0
    /\ postOutcome = "pending"
    /\ runningReported = FALSE
    /\ deleteFailures = 0
    /\ ConsoleIdle
    /\ TransportIdle
    /\ ServiceIdle
    /\ ProcessIdle

\* Lines 135-258, the synchronous body: without token, server or username
\* process.exit(1); else the WebSocket is created, stdin is put in raw mode
\* and resumed, and the handlers are installed.
ConsoleStart ==
    /\ pc = "start"
    /\ IF config # "complete"
       THEN /\ Exit(1)
            /\ UNCHANGED <<wsState, rawMode, stdinFlowing>>
       ELSE /\ wsState' = "CONNECTING"
            /\ rawMode' = TRUE
            /\ stdinFlowing' = TRUE
            /\ pc' = "session"
            /\ exitCode' = exitCode
    /\ UNCHANGED <<parseVars, requestVars, tunnelVars, transportVars, serviceVars,
                   terminalRestored, rawModeOff, restoreCalls, opened,
                   exitTimer, sent, sizeUpdates, sizeAnswered, reported, log, signals>>

\* Lines 178-210: 'open': the first geometry request is issued and the
\* resize, data and message listeners are installed.
WsOpen ==
    /\ pc = "session"
    /\ wsState = "CONNECTING"
    /\ wsState' = "OPEN"
    /\ opened' = TRUE
    /\ sizeUpdates' = sizeUpdates + 1
    /\ UNCHANGED <<pc, parseVars, requestVars, tunnelVars, transportVars, serviceVars,
                   rawMode, stdinFlowing, terminalRestored, rawModeOff,
                   restoreCalls, exitTimer, sent, sizeAnswered, reported, log,
                   processVars>>

\* Lines 185-187: 'resize' on stdout. The listener exists once 'open' ran;
\* before that the notification has no listener.
Resize ==
    /\ pc = "session"
    /\ Len(log) < MaxEvents
    /\ Cardinality({i \in 1..Len(log) : log[i].kind = "resize"}) < MaxResizes
    /\ log' = Append(log, Event("resize", EMPTY))
    /\ sizeUpdates' = IF opened THEN sizeUpdates + 1 ELSE sizeUpdates
    /\ UNCHANGED <<pc, parseVars, requestVars, tunnelVars, transportVars, serviceVars,
                   wsState, rawMode, stdinFlowing, terminalRestored, rawModeOff,
                   restoreCalls, opened, exitTimer, sent, sizeAnswered,
                   reported, processVars>>

\* A geometry request that fails with process.exit(1).
SizeAnswered_fatal ==
    /\ pc = "session"
    /\ sizeAnswered < sizeUpdates
    /\ sizeAnswered' = sizeAnswered + 1
    /\ \E ok \in BOOLEAN :
           IF ok
           THEN UNCHANGED <<reported, pc, exitCode>>
           ELSE /\ reported' = reported \cup {"sizeError"}
                /\ Exit(1)
    /\ UNCHANGED <<parseVars, requestVars, tunnelVars, transportVars, serviceVars, wsState,
                   rawMode, stdinFlowing, terminalRestored, rawModeOff,
                   restoreCalls, opened, exitTimer, sent, sizeUpdates, log,
                   signals>>

\* Lines 268-284, updateTerminalSize after its await: the geometry request
\* is answered; a failure is logged.
SizeAnswered ==
    /\ pc = "session"
    /\ sizeAnswered < sizeUpdates
    /\ sizeAnswered' = sizeAnswered + 1
    /\ \E ok \in BOOLEAN :
           reported' = IF ok THEN reported ELSE reported \cup {"sizeError"}
    /\ UNCHANGED <<pc, parseVars, requestVars, tunnelVars, transportVars, serviceVars,
                   wsState, rawMode, stdinFlowing, terminalRestored, rawModeOff,
                   restoreCalls, opened, exitTimer, sent, sizeUpdates, log,
                   processVars>>

\* Lines 164 and 190-199: a chunk read from stdin. stdin is resumed before
\* the WebSocket opens and the 'data' listener exists only once 'open' ran:
\* a chunk read before that has no listener and is discarded. The listener
\* closes the WebSocket on the lone Ctrl+D and sends any other chunk;
\* ws.send on a WebSocket that is not open sends nothing.
StdinData ==
    /\ pc = "session"
    /\ stdinFlowing
    /\ Len(log) < MaxEvents
    /\ \E data \in Chunks :
           /\ log' = Append(log, Event("data", data))
           /\ IF ~opened
              THEN UNCHANGED <<wsState, sent>>
              ELSE IF isEndOfTransmission(data)
                   THEN /\ closeIfOpen
                        /\ sent' = sent
                   ELSE /\ Len(sent) < MaxFrames
                        /\ sent' = IF wsState = "OPEN" THEN Append(sent, data)
                                   ELSE sent
                        /\ wsState' = wsState
    /\ UNCHANGED <<pc, parseVars, requestVars, tunnelVars, transportVars, serviceVars,
                   rawMode, stdinFlowing, terminalRestored, rawModeOff,
                   restoreCalls, opened, exitTimer, sizeUpdates, sizeAnswered,
                   reported, processVars>>

\* Lines 213-221: 'close': restoreTerminal, then process.exit(0) in 100 ms
WsClose ==
    /\ pc = "session"
    /\ wsState \in {"OPEN", "CLOSING"}
    /\ wsState' = "CLOSED"
    /\ reported' = reported \cup {"closed"}
    /\ restoreTerminal
    /\ exitTimer' = TRUE
    /\ UNCHANGED <<pc, parseVars, requestVars, tunnelVars, transportVars, serviceVars,
                   opened, sent, sizeUpdates, sizeAnswered, log, processVars>>

\* Lines 218-220: the timer fires
ExitTimer ==
    /\ pc = "session"
    /\ exitTimer
    /\ Exit(0)
    /\ UNCHANGED <<parseVars, requestVars, tunnelVars, transportVars, serviceVars,
                   consoleVars, signals>>

\* The 'error' handler ending like the 'close' handler.
WsError_graceful ==
    /\ pc = "session"
    /\ wsState \in {"CONNECTING", "OPEN", "CLOSING"}
    /\ reported' = reported \cup {"error"}
    /\ restoreTerminal
    /\ exitTimer' = TRUE
    /\ wsState' = "CLOSED"
    /\ UNCHANGED <<pc, parseVars, requestVars, tunnelVars, transportVars, serviceVars,
                   opened, sent, sizeUpdates, sizeAnswered, log, processVars>>

\* Lines 224-228: 'error': restoreTerminal, process.exit(1)
WsError ==
    /\ pc = "session"
    /\ wsState \in {"CONNECTING", "OPEN", "CLOSING"}
    /\ reported' = reported \cup {"error"}
    /\ restoreTerminal
    /\ Exit(1)
    /\ UNCHANGED <<parseVars, requestVars, tunnelVars, transportVars, serviceVars, wsState,
                   opened, exitTimer, sent, sizeUpdates, sizeAnswered, log, signals>>

\* SIGINT with the default disposition: the process is terminated.
ConsoleSigint_default ==
    /\ pc = "session"
    /\ signals < MaxSignals
    /\ Len(log) < MaxEvents
    /\ signals' = signals + 1
    /\ log' = Append(log, Event("sigint", <<ETX>>))
    /\ Exit(130)
    /\ UNCHANGED <<parseVars, requestVars, tunnelVars, transportVars, serviceVars, wsState,
                   rawMode, stdinFlowing, terminalRestored, rawModeOff,
                   restoreCalls, opened, exitTimer, sent, sizeUpdates, sizeAnswered, reported>>

\* Lines 231-239: SIGINT: Ctrl+C is sent if the WebSocket is open
ConsoleSigint ==
    /\ pc = "session"
    /\ signals < MaxSignals
    /\ Len(log) < MaxEvents
    /\ signals' = signals + 1
    /\ log' = Append(log, Event("sigint", <<ETX>>))
    /\ IF wsState = "OPEN"
       THEN /\ Len(sent) < MaxFrames
            /\ sent' = Append(sent, <<ETX>>)
       ELSE sent' = sent
    /\ UNCHANGED <<pc, parseVars, requestVars, tunnelVars, transportVars, serviceVars,
                   wsState, rawMode, stdinFlowing, terminalRestored, rawModeOff,
                   restoreCalls, opened, exitTimer, sizeUpdates, sizeAnswered, reported,
                   exitCode>>

\* Lines 242-247: SIGTERM: restoreTerminal, close if open
ConsoleSigterm ==
    /\ pc = "session"
    /\ signals < MaxSignals
    /\ Len(log) < MaxEvents
    /\ signals' = signals + 1
    /\ log' = Append(log, Event("sigterm", EMPTY))
    /\ restoreTerminal
    /\ closeIfOpen
    /\ UNCHANGED <<pc, parseVars, requestVars, tunnelVars, transportVars, serviceVars,
                   opened, exitTimer, sent, sizeUpdates, sizeAnswered, reported, exitCode>>

\* Lines 250-257: 'uncaughtException': restoreTerminal, close if open,
\* process.exit(1)
UncaughtException ==
    /\ pc = "session"
    /\ reported' = reported \cup {"fault"}
    /\ restoreTerminal
    /\ closeIfOpen
    /\ Exit(1)
    /\ UNCHANGED <<parseVars, requestVars, tunnelVars, transportVars, serviceVars, opened,
                   exitTimer, sent, sizeUpdates, sizeAnswered, log, signals>>

ConsoleNext ==
    \/ ConsoleStart
    \/ WsOpen
    \/ Resize
    \/ SizeAnswered
    \/ StdinData
    \/ WsClose
    \/ ExitTimer
    \/ WsError
    \/ ConsoleSigint
    \/ ConsoleSigterm
    \/ UncaughtException

SpecConsole == ConsoleInit /\ [][ConsoleNext]_vars

\* The session with what its environment guarantees: a connection attempt
\* ends (it opens or it fails), a closing handshake ends (the WebSocket
\* library destroys the socket when its close timer expires), and the
\* 100 ms timer fires. Nothing makes the remote end close an open stream.
ConnectionResolves == wsState = "CONNECTING" /\ (WsOpen \/ WsError)

ClosingCompletes == wsState = "CLOSING" /\ WsClose

ConsoleFairness ==
    /\ WF_vars(ConsoleStart)
    /\ WF_vars(ConnectionResolves)
    /\ WF_vars(ClosingCompletes)
    /\ WF_vars(ExitTimer)

SpecConsoleLive == ConsoleInit /\ [][ConsoleNext]_vars /\ ConsoleFairness

----------------------------------------------------------------------------
(* The authenticated transport: the response interceptor of lib/api.js     *)
(* (config.js 119-146) and refreshToken (lib/auth.js 159-203). refreshToken *)
(* posts to /oauth/token through the same axios instance, so the           *)
(* interceptor also sees the answers to the refresh requests.              *)

\* The answers the interceptor tells apart: a 2xx response, a 401, any other
\* failure (another status, no response).
Statuses == {"ok", "unauthorized", "error"}

\* refreshToken() returned (a token or undefined) to the interceptor that
\* awaited it, with d refresh requests waiting and posts refresh requests
\* sent: lines 131-136, the waiting request is sent again. The innermost
\* waiting request is a refresh request when d > 0, else the caller's.
resume(d, posts) ==
    IF d > 0
    THEN /\ depth' = d - 1
         /\ inflight' = "refreshRetry"
         /\ refreshPosts' = posts + 1
         /\ sends' = sends
    ELSE /\ depth' = 0
         /\ inflight' = "originalRetry"
         /\ refreshPosts' = posts
         /\ sends' = sends + 1

\* auth.js lines 159-203: without a refresh_token refreshToken returns
\* undefined at once; else it posts to /oauth/token and awaits the answer.
refreshToken(d) ==
    /\ refreshCalls' = refreshCalls + 1
    /\ IF hasRefreshToken
       THEN /\ depth' = d
            /\ inflight' = "refresh"
            /\ refreshPosts' = refreshPosts + 1
            /\ sends' = sends
       ELSE resume(d, refreshPosts)

\* Line 125: error.response?.status === 401 && !originalRequest._retry
shouldRefresh(status, flag) == status = "unauthorized" /\ ~flag

TransportInit ==
    /\ pc = "call"
    /\ ParseIdle
    /\ RequestIdle
    /\ TunnelIdle
    /\ ConsoleIdle
    /\ inflight = "none"
    /\ retry = FALSE
    /\ depth = 0
    /\ hasRefreshToken \in BOOLEAN
    /\ refreshCalls = 0
    /\ refreshPosts = 0
    /\ sends = 0
    /\ answers = << >>
    /\ surfaced = "pending"
    /\ ServiceIdle
    /\ ProcessIdle

\* api.get / api.post / api.delete: the caller's request is sent
ApiRequest ==
    /\ pc = "call"
    /\ pc' = "awaiting"
    /\ inflight' = "original"
    /\ sends' = sends + 1
    /\ UNCHANGED <<parseVars, requestVars, tunnelVars, consoleVars, retry, depth,
                   hasRefreshToken, refreshCalls, refreshPosts, answers,
                   surfaced, serviceVars, processVars>>

\* Lines 119-146: the caller's request (first sent or sent again) is answered
RequestAnswered ==
    /\ pc = "awaiting"
    /\ inflight \in {"original", "originalRetry"}
    /\ \E status \in Statuses :
           /\ answers' = Append(answers, [request |-> inflight, status |-> status])
           /\ IF status = "ok"
              THEN /\ surfaced' = "response"
                   /\ pc' = "returned"
                   /\ inflight' = "none"
                   /\ UNCHANGED <<retry, depth, refreshCalls, refreshPosts, sends>>
              ELSE IF shouldRefresh(status, retry)
                   THEN /\ retry' = TRUE
                        /\ refreshToken(0)
                        /\ UNCHANGED <<pc, surfaced>>
                   ELSE /\ surfaced' = "failure"
                        /\ pc' = "returned"
                        /\ inflight' = "none"
                        /\ UNCHANGED <<retry, depth, refreshCalls, refreshPosts,
                                       sends>>
    /\ UNCHANGED <<parseVars, requestVars, tunnelVars, consoleVars,
                   hasRefreshToken, serviceVars, processVars>>

\* Lines 119-146 and auth.js 177-199: a refresh request is answered. A 401
\* to a refresh request not yet sent again makes the interceptor call
\* refreshToken() for it; any other answer ends the refreshToken() that
\* posted it (with the token, or with undefined after its catch).
RefreshAnswered ==
    /\ pc = "awaiting"
    /\ inflight \in {"refresh", "refreshRetry"}
    /\ \E status \in Statuses :
           /\ answers' = Append(answers, [request |-> inflight, status |-> status])
           /\ IF status # "ok" /\ shouldRefresh(status, inflight = "refreshRetry")
              THEN /\ depth < MaxNesting
                   /\ refreshToken(depth + 1)
              ELSE /\ refreshCalls' = refreshCalls
                   /\ resume(depth, refreshPosts)
    /\ UNCHANGED <<pc, parseVars, requestVars, tunnelVars, consoleVars, retry,
                   hasRefreshToken, surfaced, serviceVars, processVars>>

TransportNext ==
    \/ ApiRequest
    \/ RequestAnswered
    \/ RefreshAnswered

SpecTransport == TransportInit /\ [][TransportNext]_vars

----------------------------------------------------------------------------
(* The configuration file under token refresh: readConfig, writeConfig and *)
(* mergeConfig (config.js 34-69), refreshToken (auth.js 159-203) and the   *)
(* response interceptor (config.js 119-146), with several requests         *)
(* outstanding together, as the un-awaited updateTerminalSize calls of the *)
(* console session are (resource.js 182, 186). The answers to the refresh  *)
(* request here are a grant or a failure other than 401; the 401 answer to *)
(* the refresh request is what SpecTransport follows.                      *)

\* The tokens the token endpoint issues, by the number of the grant.
AccessTokens == <<"a1", "a2", "a3", "a4", "a5">>

RefreshTokens == <<"r1", "r2", "r3", "r4", "r5">>

\* JavaScript truthiness of config.field: held and not the empty string.
Has(conf, field) == field \in DOMAIN conf /\ conf[field] # ""

\* config.js lines 54-59: JSON.stringify leaves out the properties whose
\* value is undefined; the file holds the rest.
writeConfig(conf) ==
    [field \in {g \in DOMAIN conf : conf[g] # UNDEFINED} |-> conf[field]]

mergeConfig_existingWins(existingConfig, newConfig) ==
    writeConfig([field \in DOMAIN existingConfig \cup DOMAIN newConfig |->
                    IF field \in DOMAIN existingConfig
                    THEN existingConfig[field]
                    ELSE newConfig[field]])

\* config.js lines 65-69: {...existingConfig, ...newConfig}, written back.
\* The result is the file's new content.
mergeConfig(existingConfig, newConfig) ==
    writeConfig([field \in DOMAIN existingConfig \cup DOMAIN newConfig |->
                    IF field \in DOMAIN newConfig
                    THEN newConfig[field]
                    ELSE existingConfig[field]])

\* The records a session starts from: the record of a login that got a
\* refresh token (auth.js 426-430), of a login that got none (133-137,
\* 269-272), and the record authenticate leaves before a login ends (38-40).
SessionRecords ==
    { [server |-> "host", username |-> "user", token |-> "a1", refresh_token |-> "r1"],
      [server |-> "host", username |-> "user", token |-> "a1"],
      [server |-> "host"] }

SessionInit ==
    /\ pc = "session"
    /\ ParseIdle
    /\ RequestIdle
    /\ TunnelIdle
    /\ ConsoleIdle
    /\ TransportIdle
    /\ record \in SessionRecords
    /\ flows = [f \in 1..MaxRequests |-> [phase |-> "idle", presented |-> UNDEFINED]]
    /\ idp = [issued |-> 1, consumed |-> {}]
    /\ lastRefresh = NoRefresh
    /\ DevicesIdle
    /\ StartupIdle
    /\ ProcessIdle

\* api.get / api.post: a request is sent while others are outstanding
SessionRequest(f) ==
    /\ pc = "session"
    /\ flows[f].phase = "idle"
    /\ flows' = [flows EXCEPT ![f].phase = "sent"]
    /\ UNCHANGED <<pc, parseVars, requestVars, tunnelVars, consoleVars,
                   transportVars, record, idp, lastRefresh, devicesVars,
                   startupVars, processVars>>

\* config.js lines 119-146 with auth.js 159-165: a request is answered. A
\* 401 to a request not yet sent again calls refreshToken(), which reads
\* the configuration and returns at once when it lacks a field, else posts
\* config.refresh_token to /oauth/token.
SessionAnswered(f) ==
    /\ pc = "session"
    /\ flows[f].phase \in {"sent", "resent"}
    /\ \E status \in Statuses :
           IF shouldRefresh(status, flows[f].phase = "resent")
           THEN IF Has(record, "username") /\ Has(record, "server")
                   /\ Has(record, "refresh_token")
                THEN /\ flows' = [flows EXCEPT ![f] =
                                     [phase |-> "refreshing",
                                      presented |-> record.refresh_token]]
                     /\ lastRefresh' = lastRefresh
                ELSE /\ flows' = [flows EXCEPT ![f].phase = "resent"]
                     /\ lastRefresh' = [n |-> lastRefresh.n + 1, flow |-> f,
                                        ok |-> FALSE, access |-> UNDEFINED,
                                        refresh |-> UNDEFINED]
           ELSE /\ flows' = [flows EXCEPT ![f].phase = "done"]
                /\ lastRefresh' = lastRefresh
    /\ UNCHANGED <<pc, parseVars, requestVars, tunnelVars, consoleVars,
                   transportVars, record, idp, devicesVars, startupVars,
                   processVars>>

\* auth.js lines 177-199 and config.js 131-136: the refresh request is
\* answered. A grant holds an access token and may hold a new refresh
\* token; mergeConfig stores both and the waiting request is sent again. A
\* failure is logged, refreshToken returns undefined and the waiting
\* request is sent again all the same.
RefreshEnds(f) ==
    /\ pc = "session"
    /\ flows[f].phase = "refreshing"
    /\ flows' = [flows EXCEPT ![f].phase = "resent"]
    /\ \E granted \in BOOLEAN, rotated \in BOOLEAN :
           IF granted
           THEN LET n == idp.issued + 1
                    data == [access_token |-> AccessTokens[n],
                             refresh_token |-> IF rotated THEN RefreshTokens[n]
                                               ELSE UNDEFINED]
                IN  /\ idp' = [issued |-> n,
                               consumed |-> idp.consumed \cup {flows[f].presented}]
                    /\ record' = mergeConfig(record,
                                      [token |-> data.access_token,
                                       refresh_token |-> data.refresh_token])
                    /\ lastRefresh' = [n |-> lastRefresh.n + 1, flow |-> f,
                                       ok |-> TRUE,
                                       access |-> data.access_token,
                                       refresh |-> data.refresh_token]
           ELSE /\ rotated = FALSE
                /\ lastRefresh' = [n |-> lastRefresh.n + 1, flow |-> f,
                                   ok |-> FALSE, access |-> UNDEFINED,
                                   refresh |-> UNDEFINED]
                /\ UNCHANGED <<record, idp>>
    /\ UNCHANGED <<pc, parseVars, requestVars, tunnelVars, consoleVars,
                   transportVars, devicesVars, startupVars, processVars>>

SessionNext ==
    \/ \E f \in 1..MaxRequests : SessionRequest(f)
    \/ \E f \in 1..MaxRequests : SessionAnswered(f)
    \/ \E f \in 1..MaxRequests : RefreshEnds(f)

SpecSession == SessionInit /\ [][SessionNext]_vars

----------------------------------------------------------------------------
(* getDevices (lib/devices.js, part_004 lines 10-66): the listing of the   *)
(* devices a filter selects, page by page. The devices of the filtered     *)
(* fleet are numbered 1..fleet in the server's order; the server answers a *)
(* page request with the devices after the first `index` ones, `count` of  *)
(* them at most.                                                           *)

\* Line 27: const count = 50
count == 50

\* response.data of GET ...devices?count=50&index=i
responseData(i) ==
    [k \in 1..(IF fleet - i > count THEN count
               ELSE IF fleet - i > 0 THEN fleet - i ELSE 0) |-> i + k]

morePages_nonEmpty(res_length) == res_length > 0

\* Line 43: while ( res_length === count )
morePages(res_length) == res_length = count

DevicesInit ==
    /\ pc = "call"
    /\ ParseIdle
    /\ RequestIdle
    /\ TunnelIdle
    /\ ConsoleIdle
    /\ TransportIdle
    /\ record \in SessionRecords
    /\ flows = << >>
    /\ idp = [issued |-> 0, consumed |-> {}]
    /\ lastRefresh = NoRefresh
    /\ fleet \in 0..MaxFleet
    /\ index = 0
    /\ devices = << >>
    /\ pages = << >>
    /\ StartupIdle
    /\ ProcessIdle

\* Lines 10-36: the configuration check, then the first page request
GetDevices ==
    /\ pc = "call"
    /\ IF ~Has(record, "token") \/ ~Has(record, "server") \/ ~Has(record, "username")
       THEN /\ pc' = "threw"
            /\ pages' = pages
       ELSE /\ pc' = "fetching"
            /\ pages' = Append(pages, [index |-> 0])
    /\ index' = 0
    /\ devices' = << >>
    /\ UNCHANGED <<parseVars, requestVars, tunnelVars, consoleVars,
                   transportVars, sessionVars, fleet, startupVars, processVars>>

\* Lines 38-45: a page arrives; the next page is requested or the list is
\* returned
PageAnswered ==
    /\ pc = "fetching"
    /\ LET res_length == Len(responseData(index))
       IN  /\ index' = index + res_length
           /\ devices' = devices \o responseData(index)
           /\ IF morePages(res_length)
              THEN /\ pages' = Append(pages, [index |-> index + res_length])
                   /\ pc' = pc
              ELSE /\ pages' = pages
                   /\ pc' = "returned"
    /\ UNCHANGED <<parseVars, requestVars, tunnelVars, consoleVars,
                   transportVars, sessionVars, fleet, startupVars, processVars>>

\* Lines 47-64: a page request fails; getDevices throws
PageFails ==
    /\ pc = "fetching"
    /\ pc' = "threw"
    /\ UNCHANGED <<parseVars, requestVars, tunnelVars, consoleVars,
                   transportVars, sessionVars, devicesVars, startupVars,
                   processVars>>

DevicesNext ==
    \/ GetDevices
    \/ PageAnswered
    \/ PageFails

SpecDevices == DevicesInit /\ [][DevicesNext]_vars

----------------------------------------------------------------------------
(* The entry point (bin/thinr.js) and the setup it starts when there is no *)
(* configuration: authenticate and authenticateWithUserPass (auth.js       *)
(* 16-157), with the token and OAuth logins (auth.js 240-450) as one step. *)

\* What the command line names: nothing, a device action, a product command.
Commands ==
    {"none", "tcp", "tls", "http", "console", "status", "property", "resource",
     "product"}

\* The configuration file at startup, by what it is called here.
InstalledRecord(kind) ==
    IF kind = "none" THEN NoRecord
    ELSE IF kind = "noServer" THEN [username |-> "user", token |-> "a1"]
    ELSE [server |-> "host", username |-> "user", token |-> "a1"]

\* config.js lines 25-28, on the file's content
configExists == record # NoRecord

\* auth.js lines 456-463: config.token, or null
getAccessToken == IF Has(record, "token") THEN record.token ELSE UNDEFINED

\* config.js lines 108-117 and 104-106: a request through api, with the
\* base URL and the Authorization it carries, and the answer it got.
Call(name, status) ==
    [name |-> name, baseURL |-> baseURL, bearer |-> getAccessToken,
     status |-> status]

Methods == {"oauth", "token", "userpass"}

Servers == {"console.thinr.io", "host"}

\* The answers the setup tells apart: success, 401, 404, another status,
\* no response.
LoginAnswers == {"ok", "unauthorized", "notFound", "status", "noResponse"}

\* createTokenResponse.data.access_token
PermanentToken == "p1"

StartupInit ==
    /\ pc = "start"
    /\ ParseIdle
    /\ RequestIdle
    /\ TunnelIdle
    /\ ConsoleIdle
    /\ TransportIdle
    /\ installed \in {"none", "noServer", "server"}
    /\ record = InstalledRecord(installed)
    /\ flows = << >>
    /\ idp = [issued |-> 0, consumed |-> {}]
    /\ lastRefresh = NoRefresh
    /\ DevicesIdle
    /\ command \in [name : Commands, dispatched : {FALSE}]
    /\ baseURL = "unset"
    /\ login = [method |-> "", server |-> "", username |-> ""]
    /\ calls = << >>
    /\ ProcessIdle

\* thinr.js lines 45-52. readConfig is not among the imports (line 7), so
\* line 47 throws a ReferenceError at the module's top level whenever a
\* configuration exists: the process ends with status 1 before line 50.
Startup ==
    /\ pc = "start"
    /\ IF configExists
       THEN Exit(1)
       ELSE /\ pc' = "main"
            /\ exitCode' = exitCode
    /\ UNCHANGED <<parseVars, requestVars, tunnelVars, consoleVars,
                   transportVars, serviceVars, signals>>

\* thinr.js lines 54-78: without a command the setup starts, or the help is
\* shown when a configuration exists; with one, program.parse runs its
\* action, which ends at once when there is no configuration (part_000
\* 31-34, 297-300) and else issues its requests.
Main ==
    /\ pc = "main"
    /\ IF command.name = "none"
       THEN IF ~configExists
            THEN /\ pc' = "setup"
                 /\ UNCHANGED <<command, calls, exitCode>>
            ELSE /\ command' = [command EXCEPT !.dispatched = TRUE]
                 /\ calls' = calls
                 /\ Exit(0)
       ELSE /\ command' = [command EXCEPT !.dispatched = TRUE]
            /\ IF ~configExists
               THEN /\ calls' = calls
                    /\ Exit(1)
               ELSE /\ calls' = Append(calls, Call(command.name, "pending"))
                    /\ pc' = "running"
                    /\ exitCode' = exitCode
    /\ UNCHANGED <<parseVars, requestVars, tunnelVars, consoleVars,
                   transportVars, sessionVars, devicesVars, installed, baseURL,
                   login, signals>>

\* auth.js lines 16-52: the method and the server are asked, the base URL
\* is set and the configuration is written with the server alone.
Authenticate ==
    /\ pc = "setup"
    /\ \E method \in Methods, server \in Servers :
           /\ login' = [method |-> method, server |-> server, username |-> ""]
           /\ baseURL' = server
           /\ record' = writeConfig([server |-> server])
           /\ pc' = IF method = "userpass" THEN "userpass" ELSE "login"
    /\ UNCHANGED <<parseVars, requestVars, tunnelVars, consoleVars,
                   transportVars, flows, idp, lastRefresh, devicesVars,
                   installed, command, calls, processVars>>

\* auth.js lines 240-290 and 296-450: the token and the OAuth login. One
\* that succeeds merges username and tokens into the configuration and
\* returns to thinr.js line 64, where program.help() ends the process; one
\* that fails ends it with status 1.
OtherLogin ==
    /\ pc = "login"
    /\ \E answer \in LoginAnswers :
           /\ calls' = Append(calls, Call(login.method, answer))
           /\ login' = [login EXCEPT !.username = "user"]
           /\ IF answer = "ok"
              THEN /\ record' = mergeConfig(record,
                                     IF login.method = "oauth"
                                     THEN [username |-> "user", token |-> "a1",
                                           refresh_token |-> "r1"]
                                     ELSE [username |-> "user", token |-> "a1"])
                   /\ Exit(0)
              ELSE /\ record' = record
                   /\ Exit(1)
    /\ UNCHANGED <<parseVars, requestVars, tunnelVars, consoleVars,
                   transportVars, flows, idp, lastRefresh, devicesVars,
                   installed, command, baseURL, signals>>

\* auth.js lines 58-98 and 139-152: username and password are asked and
\* posted to /oauth/token. The response is kept in a constant that nothing
\* reads afterwards.
PasswordGrant ==
    /\ pc = "userpass"
    /\ \E answer \in LoginAnswers :
           /\ calls' = Append(calls, Call("grant", answer))
           /\ login' = [login EXCEPT !.username = "user"]
           /\ IF answer = "ok"
              THEN /\ pc' = "deleting"
                   /\ exitCode' = exitCode
              ELSE Exit(1)
    /\ UNCHANGED <<parseVars, requestVars, tunnelVars, consoleVars,
                   transportVars, sessionVars, devicesVars, installed, command,
                   baseURL, signals>>

\* auth.js lines 100-110: the DELETE of the old token; its failure is
\* thrown on when it has a response whose status is not 404.
DeleteOldToken ==
    /\ pc = "deleting"
    /\ \E answer \in LoginAnswers :
           /\ calls' = Append(calls, Call("delete", answer))
           /\ IF answer \in {"unauthorized", "status"}
              THEN Exit(1)
              ELSE /\ pc' = "creating"
                   /\ exitCode' = exitCode
    /\ UNCHANGED <<parseVars, requestVars, tunnelVars, consoleVars,
                   transportVars, sessionVars, devicesVars, installed, command,
                   baseURL, login, signals>>

\* auth.js lines 112-152: the POST that creates the token. After it
\* succeeded, writeConfig's argument names `server`, which is a constant of
\* authenticate (line 28) and not in scope here: evaluating it throws a
\* ReferenceError before writeConfig is called, the catch of line 140
\* reports it and the process ends with status 1.
CreateToken ==
    /\ pc = "creating"
    /\ \E answer \in LoginAnswers :
           /\ calls' = Append(calls, Call("create", answer))
           /\ Exit(1)
    /\ UNCHANGED <<parseVars, requestVars, tunnelVars, consoleVars,
                   transportVars, sessionVars, devicesVars, installed, command,
                   baseURL, login, signals>>

StartupNext ==
    \/ Startup
    \/ Main
    \/ Authenticate
    \/ OtherLogin
    \/ PasswordGrant
    \/ DeleteOldToken
    \/ CreateToken

SpecStartup == StartupInit /\ [][StartupNext]_vars

----------------------------------------------------------------------------
(* What the claims about the parser speak of, stated on the input itself.  *)

DigitChars == <<"0", "1", "2", "3", "4", "5", "6", "7", "8", "9">>

OnlyDigits(s) == s # EMPTY /\ \A i \in DOMAIN s : \E n \in 1..10 : DigitChars[n] = s[i]

RECURSIVE Pow10(_)
Pow10(n) == IF n = 0 THEN 1 ELSE 10 * Pow10(n - 1)

RECURSIVE PositionalSum(_, _)
PositionalSum(s, i) ==
    IF i > Len(s) THEN 0
    ELSE ((CHOOSE n \in 1..10 : DigitChars[n] = s[i]) - 1) * Pow10(Len(s) - i)
         + PositionalSum(s, i + 1)

\* The number a string of decimal digits denotes.
DecimalValue(s) == PositionalSum(s, 1)

IsPrefix(p, s) == Len(p) <= Len(s) /\ \A i \in DOMAIN p : p[i] = s[i]

HasHttps(s) == IsPrefix(HTTPS_PREFIX, s)

HasHttp(s) == IsPrefix(HTTP_PREFIX, s)

Drop(s, n) == [i \in 1..(Len(s) - n) |-> s[i + n]]

\* The input without its leading scheme.
AfterScheme(s) ==
    IF HasHttps(s) THEN Drop(s, Len(HTTPS_PREFIX))
    ELSE IF HasHttp(s) THEN Drop(s, Len(HTTP_PREFIX))
    ELSE s

\* The part of s before its first slash.
BeforeSlash(s) ==
    LET n == CHOOSE k \in 0..Len(s) :
                 /\ \A i \in 1..k : s[i] # "/"
                 /\ (k = Len(s) \/ s[k + 1] = "/")
    IN  [i \in 1..n |-> s[i]]

\* The remainder of the input after scheme and path removal.
Remainder(s) == BeforeSlash(AfterScheme(s))

HasColon(s) == \E i \in DOMAIN s : s[i] = ":"

LastColon(s) == CHOOSE k \in DOMAIN s : s[k] = ":" /\ \A i \in (k + 1)..Len(s) : s[i] # ":"

\* The text after the last colon, and the text before it.
Suffix(s) == Drop(s, LastColon(s))

Host(s) == [i \in 1..(LastColon(s) - 1) |-> s[i]]

\* The suffix is an integer in (0, 65535].
ExplicitPort(s) ==
    /\ HasColon(s)
    /\ OnlyDigits(Suffix(s))
    /\ DecimalValue(Suffix(s)) > 0
    /\ DecimalValue(Suffix(s)) <= 65535

\* The inputs that reach the general branch of the parser.
GeneralInput == pc = "parsed" /\ target.given /\ target.str # EMPTY /\ ~OnlyDigits(target.str)

----------------------------------------------------------------------------
(* Claims about parseTarget, under SpecParse.                              *)

\* C4: for every input and every default port in 1..65535 the port that
\* parseTarget returns lies in 1..65535.
C4_PortInRange ==
    pc = "parsed" => (parsed.port >= 1 /\ parsed.port <= 65535)

\* C4: an input of digits only whose value lies outside 1..65535 was parsed.
C4_Witness ==
    /\ pc = "parsed"
    /\ target.given
    /\ OnlyDigits(target.str)
    /\ DecimalValue(target.str) > 65535

\* C5: absent or empty input gives localhost, the default port and not
\* secure; an input of decimal digits only gives localhost, the number the
\* digits denote and not secure, whatever the default port.
C5_AbsentAndDigits ==
    pc = "parsed" =>
        /\ (~target.given \/ target.str = EMPTY) =>
               parsed = [address |-> LOCALHOST, port |-> defaultPort, isSecure |-> FALSE]
        /\ (target.given /\ OnlyDigits(target.str)) =>
               parsed = [address |-> LOCALHOST, port |-> DecimalValue(target.str),
                         isSecure |-> FALSE]

\* C5: "080" was parsed with default port 22 and gave port 80.
C5_Witness ==
    /\ pc = "parsed"
    /\ target = [given |-> TRUE, str |-> <<"0", "8", "0">>]
    /\ defaultPort = 22
    /\ parsed.port = 80

\* C6: without a scheme, a remainder with a colon is split at the last
\* colon and the suffix is the port only if it is an integer in (0, 65535];
\* for any other suffix the whole remainder is the address and the port is
\* the default; with no colon the remainder is the address and the port is
\* the default.
C6_SplitAtLastColon ==
    (GeneralInput /\ ~HasHttps(target.str) /\ ~HasHttp(target.str)) =>
        LET rem == BeforeSlash(target.str)
        IN  IF ExplicitPort(rem)
            THEN /\ parsed.port = DecimalValue(Suffix(rem))
                 /\ parsed.address = (IF Host(rem) = EMPTY THEN LOCALHOST ELSE Host(rem))
            ELSE /\ parsed.port = defaultPort
                 /\ parsed.address = (IF rem = EMPTY THEN LOCALHOST ELSE rem)

\* C6: a remainder whose suffix is partly numeric was parsed.
C6_Witness ==
    /\ GeneralInput
    /\ target.str = <<":", "8", "0", "x">>
    /\ defaultPort = 22

\* C7: isSecure is true exactly when the input starts with https://; the
\* address is taken from the input with its scheme removed and cut at the
\* first slash, so it holds neither a scheme prefix nor a slash, and an
\* empty address is replaced by localhost.
C7_SchemeAndPath ==
    pc = "parsed" =>
        /\ parsed.isSecure <=> (target.given /\ HasHttps(target.str))
        /\ \A i \in DOMAIN parsed.address : parsed.address[i] # "/"
        /\ ~HasHttps(parsed.address) /\ ~HasHttp(parsed.address)
        /\ parsed.address # EMPTY
        /\ LET rem == Remainder(target.str)
           IN  \/ IsPrefix(parsed.address, rem)
               \/ /\ parsed.address = LOCALHOST
                  /\ (rem = EMPTY \/ rem[1] = ":" \/ OnlyDigits(target.str))

\* C7: "https://x/x" was parsed: secure, address "x".
C7_Witness ==
    /\ pc = "parsed"
    /\ target.str = HTTPS_PREFIX \o <<"x", "/", "x">>
    /\ parsed.isSecure
    /\ parsed.address = <<"x">>

\* C8: with a scheme and no port suffix at all the port is 443 for https and
\* 80 for http; with an explicit valid port suffix the port returned is that
\* suffix, for every default port.
C8_SchemeOverride ==
    GeneralInput =>
        LET rem == Remainder(target.str)
        IN  /\ ((HasHttps(target.str) \/ HasHttp(target.str)) /\ ~HasColon(rem)) =>
                   parsed.port = (IF HasHttps(target.str) THEN 443 ELSE 80)
            /\ ExplicitPort(rem) => parsed.port = DecimalValue(Suffix(rem))

\* C8: a scheme and an explicit port equal to the default port were parsed.
C8_Witness ==
    /\ GeneralInput
    /\ HasHttps(target.str)
    /\ ExplicitPort(Remainder(target.str))
    /\ DecimalValue(Suffix(Remainder(target.str))) = defaultPort

----------------------------------------------------------------------------
(* Claims about the registration request, under SpecRequest.               *)

InRandomRange(n) == n >= 50000 /\ n <= 51000

\* C9: the request has the http category iff the kind is http; the target
\* is secure for tls, not secure for tcp, and for http secure iff the parsed
\* target is secure or its port is 443; the source is secure iff the kind
\* is not tcp.
C9_RequestFlags ==
    request.sent =>
        /\ request.protocol \in {"http_iotmp", "tcp_iotmp"}
        /\ (request.protocol = "http_iotmp") <=> (protocol = "http")
        /\ protocol = "tls" => request.target.secure
        /\ protocol = "tcp" => ~request.target.secure
        /\ protocol = "http" =>
               (request.target.secure <=> (parsed.isSecure \/ parsed.port = 443))
        /\ request.source.secure <=> (protocol # "tcp")

\* C9: an http tunnel to "443" was requested: the target is secure though
\* the input named no scheme.
C9_Witness ==
    /\ request.sent
    /\ protocol = "http"
    /\ target.str = <<"4", "4", "3">>
    /\ ~parsed.isSecure
    /\ request.target.secure
    /\ request.source.secure

\* C10 as claimed: the source port is the caller-supplied port when one is
\* given, and a port in [50000, 51000] when none is given.
C10_SourcePort ==
    request.sent =>
        /\ (options.port.given /\ OnlyDigits(options.port.str)) =>
               request.source.port = DecimalValue(options.port.str)
        /\ ~options.port.given => InRandomRange(request.source.port)

\* C10 as amended: the source port is the number the caller-supplied text
\* parses to when that number is not zero; with no port given, or a text
\* that parses to zero or to no number, it is a port in [50000, 51000]; no
\* other value is sent.
C10_SourcePortOrRandom ==
    request.sent =>
        LET o == options.port
        IN  /\ (o.given /\ OnlyDigits(o.str) /\ DecimalValue(o.str) # 0) =>
                   request.source.port = DecimalValue(o.str)
            /\ (~o.given \/ o.str = EMPTY) => InRandomRange(request.source.port)
            /\ (o.given /\ OnlyDigits(o.str) /\ DecimalValue(o.str) = 0) =>
                   InRandomRange(request.source.port)
            /\ (o.given /\ o.str # EMPTY /\ ~OnlyDigits(<<o.str[1]>>)
                        /\ o.str[1] \notin WhiteSpace \cup {"+", "-"}) =>
                   InRandomRange(request.source.port)
            /\ \/ InRandomRange(request.source.port)
               \/ o.given /\ request.source.port = parseInt(o.str).value

\* C10: -p 0 was given and the port sent is 51000, the top of the range.
C10_Witness ==
    /\ request.sent
    /\ options.port = [given |-> TRUE, str |-> <<"0">>]
    /\ request.source.port = 51000

----------------------------------------------------------------------------
(* Claims about the tunnel lifecycle, under SpecTunnel.                    *)

\* C1: once the registration has returned (proxyId is set), the process
\* does not exit before a deregistration call was made, on any exit path
\* and wherever a signal arrives among the steps after the registration.
C1_DeregisteredBeforeExit ==
    (pc = "exited" /\ proxyId) => deleteCalls >= 1

\* C1: the tunnel is registered and the browser is being opened, before
\* the SIGINT handler is installed.
C1_Witness ==
    /\ pc = "opening"
    /\ proxyId
    /\ ~handlerInstalled
    /\ deleteCalls = 0

\* C2: for a successful registration, (a) when interrupt signals arrive
\* after the success and no step has thrown, and (b) when a step throws
\* before the interrupt handler is installed, the number of deregistration
\* calls is never more than one, and it is exactly one when the process
\* exits through the handler (status 0) or the catch block (status 1).
C2_ExactlyOneDelete ==
    (proxyId /\ (~caught \/ ~handlerInstalled)) =>
        /\ deleteCalls <= 1
        /\ (pc = "exited" /\ exitCode \in {0, 1}) => deleteCalls = 1

\* C2: the handler is installed, one interrupt was handled and its
\* deregistration call is still unanswered.
C2_Witness ==
    /\ pc = "waiting"
    /\ proxyId
    /\ handlerInstalled
    /\ pendingStops = 1
    /\ deleteCalls = 1

----------------------------------------------------------------------------
(* Claims about the console session, under SpecConsole.                    *)

\* C3: in a console session the terminal leaves raw mode exactly once: never
\* more than once whatever events fire and in whatever order, and once by
\* the time the process exits.
C3_RestoredExactlyOnce ==
    /\ rawModeOff <= 1
    /\ (pc = "exited" /\ wsState # "NONE") => (rawModeOff = 1 /\ ~rawMode)

\* C3: the session has ended after restoreTerminal was called by three
\* handlers, and raw mode was left once.
C3_Witness ==
    /\ pc = "exited"
    /\ wsState # "NONE"
    /\ restoreCalls >= 3
    /\ rawModeOff = 1

----------------------------------------------------------------------------
(* The registration request and the browser.                               *)

\* The default target port of a kind of tunnel.
KindDefaultPort(kind) ==
    CASE kind = "tcp" -> 22
      [] kind = "tls" -> 443
      [] kind = "http" -> 80

\* C11: the target port of the registration request is the port that
\* parseTarget returns for the operator's target and the default port of
\* the kind, for every kind and every target.
C11_RegisteredPort ==
    pc = "requested" =>
        /\ parsed = parseTarget(target, KindDefaultPort(protocol))
        /\ request.target.port = parsed.port

C11_Witness ==
    /\ pc = "requested"
    /\ target.given
    /\ protocol = "tls"
    /\ parsed.port # 443
    /\ request.target.port = parsed.port

\* C12: with --no-open on the command line the browser is never opened; it
\* is opened only when --no-open is absent.
C12_NoOpenHonoured == argv.noOpen => ~browserOpened

C12_Witness ==
    /\ argv.noOpen
    /\ protocol = "http"
    /\ postOutcome = "ok"
    /\ runningReported

----------------------------------------------------------------------------
(* The transport.                                                          *)

\* The answers to the caller's request, in order.
CallerAnswers ==
    SelectSeq(answers, LAMBDA a : a.request \in {"original", "originalRetry"})

FirstAnswerUnauthorized ==
    Len(CallerAnswers) >= 1 /\ CallerAnswers[1].status = "unauthorized"

\* C13: a request answered 401 causes exactly one token refresh and is sent
\* again exactly once; a second 401 is surfaced as a failure with no further
\* refresh or sending.
C13_OneRefreshOneRetry ==
    FirstAnswerUnauthorized =>
        /\ refreshCalls <= 1
        /\ sends <= 2
        /\ pc = "returned" =>
               /\ refreshCalls = 1
               /\ sends = 2
               /\ Len(CallerAnswers) = 2
               /\ CallerAnswers[2].status = "unauthorized" => surfaced = "failure"

C13_Witness ==
    /\ pc = "returned"
    /\ FirstAnswerUnauthorized
    /\ Len(CallerAnswers) = 2
    /\ CallerAnswers[2].status = "unauthorized"
    /\ surfaced = "failure"
    /\ refreshPosts = 1

----------------------------------------------------------------------------
(* The console session's endings, input and signals.                       *)

\* C14: a session that ends by a closed stream restores the input mode and
\* exits with status 0 after the delay; one that ends by a stream error or a
\* local fault restores the input mode and exits with status 1; no session
\* that reported an error exits with status 0.
C14_ExitStatus ==
    /\ ("closed" \in reported /\ pc = "session") => (exitTimer /\ ~rawMode)
    /\ (pc = "exited" /\ wsState # "NONE") =>
           /\ ~rawMode
           /\ reported \ {"sizeError"} # {}
           /\ ("error" \in reported \/ "fault" \in reported) => exitCode = 1
           /\ reported \ {"sizeError"} = {"closed"} => (exitCode = 0 /\ exitTimer)
           /\ exitCode \in {0, 1}

C14_Witness ==
    /\ pc = "exited"
    /\ opened
    /\ "error" \in reported
    /\ exitCode = 1

\* The events of the log of one kind.
EventsOf(kind) == {i \in 1..Len(log) : log[i].kind = kind}

\* C15: a chunk that is the lone end-of-transmission byte is not forwarded
\* and starts the close of the stream, and nothing is sent after it; a chunk
\* holding that byte among others is forwarded like any other chunk.
C15_EndOfTransmission ==
    /\ \A i \in 1..Len(sent) : sent[i] # <<EOT>>
    /\ \A i \in EventsOf("data") :
           IF log[i].data = <<EOT>>
           THEN /\ Len(sent) = log[i].sentBefore
                /\ wsState \in {"CLOSING", "CLOSED"}
           ELSE log[i].ws = "OPEN" =>
                    /\ Len(sent) > log[i].sentBefore
                    /\ sent[log[i].sentBefore + 1] = log[i].data

C15_Witness ==
    /\ Len(log) = 3
    /\ log[1].kind = "data" /\ log[1].data = <<"a", EOT>> /\ log[1].ws = "OPEN"
    /\ log[2].kind = "data" /\ log[2].data = <<EOT>> /\ log[2].ws = "OPEN"
    /\ log[3].kind = "data" /\ log[3].data = <<"a">>
    /\ sent = << <<"a", EOT>> >>

\* A step that delivers a SIGINT to the session.
SigintDelivered ==
    /\ Len(log') = Len(log) + 1
    /\ log'[Len(log')].kind = "sigint"

\* C16: every SIGINT delivered while the stream is open sends one interrupt
\* byte into the stream, none is sent otherwise, and in every connection
\* state a SIGINT leaves the process running and the input mode unchanged.
C16_InterruptForwarded ==
    /\ [](/\ \A i \in EventsOf("sigint") :
                log[i].ws = "OPEN" =>
                    /\ Len(sent) > log[i].sentBefore
                    /\ sent[log[i].sentBefore + 1] = <<ETX>>
          /\ Cardinality({i \in 1..Len(sent) : sent[i] = <<ETX>>})
                 = Cardinality({i \in EventsOf("sigint") : log[i].ws = "OPEN"}))
    /\ [][SigintDelivered =>
              /\ pc' = pc
              /\ exitCode' = exitCode
              /\ rawMode' = rawMode
              /\ stdinFlowing' = stdinFlowing
              /\ wsState' = wsState]_vars

C16_Witness ==
    /\ pc = "session"
    /\ \E i, j \in EventsOf("sigint") :
           /\ log[i].ws = "CONNECTING"
           /\ log[j].ws = "OPEN"
    /\ sent = << <<ETX>> >>

TerminationRequested == EventsOf("sigterm") # {}

\* C17: after a SIGTERM, in any connection state, the process eventually
\* exits: no session keeps running after a termination request.
C17_TerminationExits == TerminationRequested ~> (pc = "exited")

C17_Witness ==
    /\ \E i \in EventsOf("sigterm") : log[i].ws = "CONNECTING"
    /\ wsState = "OPEN"
    /\ pc = "session"
    /\ ~rawMode

\* C20: the terminal is in raw mode only once the connection has opened; a
\* session whose connection never opens never enters raw mode.
C20_RawOnlyAfterOpen == rawMode => opened

C20_Witness ==
    /\ pc = "exited"
    /\ wsState = "CONNECTING"
    /\ ~opened
    /\ rawModeOff = 1

----------------------------------------------------------------------------
(* The tunnel's failures.                                                  *)

\* C18: a registration that fails for any reason is reported and ends the
\* command with status 1, with no second registration call, no interrupt
\* handler and no report of a running tunnel.
C18_RegistrationFailureIsTerminal ==
    postOutcome \notin {"pending", "ok"} =>
        /\ pc = "exited"
        /\ exitCode = 1
        /\ caught
        /\ postCalls <= 1
        /\ ~handlerInstalled
        /\ ~runningReported
        /\ ~proxyId

C18_Witness ==
    /\ postOutcome = "unauthorized"
    /\ postCalls = 1
    /\ pc = "exited"

\* C19: once the handler of a running tunnel is installed, every interrupt
\* signal issues a deregistration call and the process then exits with
\* status 0, whether or not the deregistration call fails.
C19_InterruptDeregisters ==
    (handlerInstalled /\ ~caught) =>
        /\ pc \in {"waiting", "exited"}
        /\ deleteCalls = signals
        /\ pc = "exited" => (exitCode = 0 /\ deleteCalls >= 1)

C19_Witness ==
    /\ handlerInstalled
    /\ ~caught
    /\ pc = "exited"
    /\ deleteFailures >= 1
    /\ exitCode = 0

----------------------------------------------------------------------------
(* The console stream's frames and the geometry updates.                   *)

\* The frames that the first i events of the log ask for, in order: every
\* chunk read before the close of the stream started, other than the lone
\* end-of-transmission byte, and one interrupt byte for every SIGINT
\* delivered while the stream was open.
RECURSIVE FramesDue(_)
FramesDue(i) ==
    IF i = 0 THEN << >>
    ELSE LET e == log[i]
             before == FramesDue(i - 1)
         IN  IF e.kind = "data" /\ e.data # <<EOT>>
                /\ e.ws \in {"CONNECTING", "OPEN"}
             THEN Append(before, e.data)
             ELSE IF e.kind = "sigint" /\ e.ws = "OPEN"
                  THEN Append(before, <<ETX>>)
                  ELSE before

\* C21: the frames sent on the stream are the chunks read by the session
\* (other than the lone end-of-transmission byte) and the interrupt bytes,
\* in the order of the local events: no chunk is dropped, duplicated or
\* reordered.
C21_FramesInOrder == sent = FramesDue(Len(log))

C21_Witness ==
    /\ Len(log) = 2
    /\ log[1].kind = "data" /\ log[1].ws = "OPEN"
    /\ log[2].kind = "sigint" /\ log[2].ws = "OPEN"
    /\ sent = << <<"a">>, <<ETX>> >>

\* A step in which a geometry request is answered.
GeometryAnswered == sizeAnswered' = sizeAnswered + 1

\* C22: one geometry update is issued when the stream opens and one for
\* every resize notification after that, none before; none goes over the
\* stream; the answer to a geometry update, failure included, changes
\* neither the stream, the input mode nor the process.
C22_GeometryUpdates ==
    /\ [](/\ ~opened => sizeUpdates = 0
          /\ opened =>
                 sizeUpdates = 1 + Cardinality({i \in EventsOf("resize") :
                                                    log[i].ws # "CONNECTING"})
          /\ Len(sent) = Cardinality({i \in 1..Len(log) :
                                /\ log[i].ws = "OPEN"
                                /\ \/ log[i].kind = "sigint"
                                   \/ log[i].kind = "data" /\ log[i].data # <<EOT>>}))
    /\ [][GeometryAnswered =>
              /\ pc' = pc
              /\ exitCode' = exitCode
              /\ wsState' = wsState
              /\ rawMode' = rawMode
              /\ stdinFlowing' = stdinFlowing
              /\ sent' = sent]_vars

C22_Witness ==
    /\ pc = "session"
    /\ wsState = "OPEN"
    /\ rawMode
    /\ "sizeError" \in reported
    /\ sizeUpdates = 2
    /\ \E i \in EventsOf("resize") : log[i].ws = "OPEN"

\* C23: the source port of every registration request is a port number
\* from 1 to 65535, whatever -p/--port holds.
C23_SourcePortValid ==
    pc = "requested" => (request.source.port >= 1 /\ request.source.port <= 65535)

C23_Witness ==
    /\ pc = "requested"
    /\ argv.port.given
    /\ argv.port.str = <<"6", "5", "5", "3", "6">>
    /\ request.sent

\* C26: a route created by a registration call that the client saw fail, or
\* that was in flight when the client was interrupted, is not left on the
\* server without a deregistration call before the process exits.
C26_NoOrphanRoute ==
    (pc = "exited" /\ routeOnServer /\ postOutcome \in {"pending", "noResponse"})
        => deleteCalls >= 1

C26_Witness ==
    /\ pc = "exited"
    /\ postOutcome = "noResponse"
    /\ routeOnServer
    /\ exitCode = 1

\* C24: one caller request causes a bounded number of refresh calls, also
\* when the token endpoint answers 401 to the refresh request itself. Stated
\* against the only limit the answers are given here: the refresh calls of
\* one caller request do not exceed the number of 401 answers a refresh
\* request may get in a row.
C24_BoundedRefreshes == refreshCalls <= MaxNesting

C24_Witness ==
    /\ pc = "awaiting"
    /\ inflight = "refresh"
    /\ depth = MaxNesting
    /\ refreshCalls = MaxNesting + 1
    /\ \A i \in DOMAIN answers : answers[i].status = "unauthorized"

\* What the claims about the stored session speak of.

\* The requests whose refresh request is in flight.
Refreshing == {f \in DOMAIN flows : flows[f].phase = "refreshing"}

\* This step is the end of a call of refreshToken().
RefreshReturns == lastRefresh'.n # lastRefresh.n

\* C25: at most one token refresh is in flight at any time, also when
\* several requests outstanding together are each answered 401.
C25_OneRefreshInFlight == Cardinality(Refreshing) <= 1

C25_Witness ==
    /\ Cardinality(Refreshing) = 2
    /\ \A f \in Refreshing : flows[f].presented = "r1"
    /\ record.refresh_token = "r1"

\* C27: a token refresh changes only the two token fields of the stored
\* record: after a refresh that succeeded, server and username are as
\* before and the token fields hold what the server returned (no refresh
\* token when it returned none); after a refresh that failed the whole
\* record is as before.
C27_RefreshFrame ==
    [][RefreshReturns =>
          IF lastRefresh'.ok
          THEN /\ DOMAIN record' \ {"refresh_token"} = DOMAIN record \ {"refresh_token"}
               /\ record'.server = record.server
               /\ record'.username = record.username
               /\ record'.token = lastRefresh'.access
               /\ IF lastRefresh'.refresh = UNDEFINED
                  THEN "refresh_token" \notin DOMAIN record'
                  ELSE record'.refresh_token = lastRefresh'.refresh
          ELSE record' = record]_vars

C27_Witness ==
    /\ lastRefresh.n = 2
    /\ lastRefresh.ok
    /\ record = [server |-> "host", username |-> "user", token |-> "a3",
                 refresh_token |-> "r3"]

\* C28: getDevices requests pages of 50 from index 0, advancing by what it
\* received, stops after the first page shorter than 50 (an empty one when
\* the fleet is a multiple of 50), and returns every device of the fleet
\* exactly once, in the server's order.
C28_EveryDeviceOnce ==
    /\ Len(pages) <= fleet \div count + 1
    /\ \A i \in DOMAIN pages : pages[i].index = (i - 1) * count
    /\ pc = "returned" =>
           /\ devices = [k \in 1..fleet |-> k]
           /\ index = fleet
           /\ Len(pages) = fleet \div count + 1

C28_Witness ==
    /\ pc = "returned"
    /\ fleet = 2 * count
    /\ Len(pages) = 3
    /\ Len(devices) = 2 * count

\* C29: when a configuration with a server exists at startup, the base URL
\* is that server once the startup block is over, no request is issued while
\* the base URL is unset, and the process does not end before the requested
\* command (or the help, when none is named) has run.
C29_BaseURLThenCommand ==
    installed = "server" =>
        /\ pc # "start" => baseURL = record.server
        /\ \A i \in DOMAIN calls : calls[i].baseURL # "unset"
        /\ pc = "exited" => command.dispatched

C29_Witness ==
    /\ installed = "server"
    /\ command.name = "console"
    /\ pc = "exited"
    /\ exitCode = 1
    /\ ~command.dispatched
    /\ baseURL = "unset"

\* The username/password login whose three calls all succeeded.
UserPassSucceeded ==
    /\ login.method = "userpass"
    /\ Len(calls) = 3
    /\ \A i \in DOMAIN calls : calls[i].status = "ok"

\* C30: a username/password login whose calls all succeed ends with a
\* stored record of server, username and the permanent token just created,
\* and the two calls after the password grant carry the access token of
\* that grant.
C30_UserPassLogin ==
    (pc = "exited" /\ UserPassSucceeded) =>
        /\ record = [server |-> login.server, username |-> login.username,
                     token |-> PermanentToken]
        /\ calls[2].bearer = AccessTokens[1]
        /\ calls[3].bearer = AccessTokens[1]

C30_Witness ==
    /\ pc = "exited"
    /\ exitCode = 1
    /\ UserPassSucceeded
    /\ record = [server |-> login.server]
    /\ calls[2].bearer = UNDEFINED

====
